---- MODULE Spec2Model ----
(***************************************************************************)
(* Client-side synchronisation core of the ASX stock portfolio tracker:    *)
(* the TradingViewChart widget lifecycle, the Watchlists real-time refresh *)
(* loop, the News fetch and the Chatbox request, as state machines.        *)
(*                                                                         *)
(* One action is one event-loop task of the browser: an event handler or  *)
(* the continuation of an awaited promise, together with the re-render and *)
(* the effects React runs for the state it changed.                        *)
(***************************************************************************)
EXTENDS Integers, Sequences, FiniteSets, TLC

(***************************************************************************)
(* Bounds of the model.                                                    *)
(***************************************************************************)
MaxCtorCalls == 3    \* calls of the TradingView.widget constructor per chart instance
MaxRefresh == 1      \* clicks on the chart's Refresh button
MaxMetricsInFlight == 2  \* metrics fetches in flight per instrument
MaxTicks == 2        \* firings of the Watchlists refresh interval
MaxEdits == 2        \* watchlist edits (add, delete, remove) the user starts
MaxNewsInFlight == 2 \* news fetches in flight per instrument
MaxSends == 2        \* chat messages the user sends
MaxDashRefresh == 1  \* clicks on the Dashboard's Refresh button

Stocks == {"ASX:BHP", "ASX:RIO"}

VARIABLES
    \* ---- TradingViewChart.tsx ----
    chartMounted,     \* the component instance is mounted
    scriptState,      \* tv.js <script>: "none" | "pending" | "loaded" | "failed"
    isLoading,        \* useState(true)
    chartError,       \* useState(null): "none" | "script" | "create"
    selectedStock,    \* useState(propSelectedStock || 'ASX:BHP')
    refreshKey,       \* useState(0)
    widgetRef,        \* useRef(null): 0 = null, else index into widgets
    widgets,          \* every widget constructed so far, in order
    stockMetrics,     \* useState(null): "null" or the instrument of the metrics
    metricsLoading,   \* useState(false)
    metricsInFlight,  \* fetchStockMetrics calls awaiting their response
    ctorCalls,        \* calls of new window.TradingView.widget so far (history)
    firstRenderStock, \* selectedStock of the first render (script.onload's closure)
    chartEvent,       \* the handler that ran last (history)
    \* ---- Watchlists.tsx ----
    wlMounted,        \* the component instance is mounted
    wlLoading,        \* useState(true)
    watchlists,       \* useState([]): sequence of [id, items]
    wlTimers,         \* active setInterval timers, each with its closure's watchlists
    cycles,           \* fetchRealTimeData calls that have not settled
    wlOps,            \* add/delete/remove handlers awaiting their response
    loadInFlight,     \* loadWatchlists awaiting its response
    nextWlId,         \* next watchlist id the backing store assigns
    nextItemId,       \* next item id the backing store assigns
    ticks,            \* firings of the refresh interval so far (history)
    edits,            \* watchlist edits started so far (history)
    \* ---- News.tsx ----
    newsMounted,      \* the component instance is mounted
    newsOpen,         \* prop isOpen
    newsStock,        \* prop selectedStock
    news,             \* useState([]): "none" or the instrument the items are for
    newsLoading,      \* useState(false)
    newsError,        \* useState(null) as a flag
    newsInFlight,     \* fetchNews calls awaiting their responses
    \* ---- Chatbox.tsx ----
    chatMounted,      \* the component instance is mounted
    selectedModel,    \* useState(GROQ_MODELS[0].value)
    messages,         \* useState([]): sequence of "greeting" | "user" | "ai"
    chatLoading,      \* useState(false) isLoading
    chatError,        \* useState(null) as a flag
    storage,          \* localStorage: model -> [present, thread]
    chatInFlight,     \* chat requests awaiting their response (the model sent)
    chatEffects,      \* passive effects of the committed render still to run:
                      \* "none" | "save" | "loadSave"
    sends,            \* chat messages sent so far (history)
    chatEvent,        \* the handler that ran last (history)
    \* ---- search box (Dashboard.tsx, TradingViewChart.tsx, Watchlists.tsx) ----
    searchQuery,      \* useState(''): the text of the input, a sequence of characters
    searchResults,    \* useState([]): no results, or the hits of a query
    isSearching,      \* useState(false)
    searchInFlight,   \* asxApiService.searchStocks calls awaiting their response
    typed,            \* changes of the input so far (history)
    \* ---- symbols (Dashboard.tsx, asxApi.ts) ----
    symbolInput,      \* the symbol handed to a conversion
    dashSelectedStock, \* Dashboard: useState('ASX:BHP') selectedStock
    yahooSymbol,      \* the symbol of the last quote request URL (getStockData)
    chartSelectedSymbol, \* TradingViewChart: selectedStock, as characters
    widgetSymbol,     \* the symbol option of the widget created last
    asxSymbol,        \* the symbol of the last metrics request URL
    stockSymbol,      \* News: the stockSymbol of the last fetchNews
    \* ---- resizable panes (Dashboard.tsx useResizable) ----
    layoutMounted,    \* the Dashboard is mounted
    size,             \* pane -> useState(initialSize) size, in percent
    isResizing,       \* pane -> useState(false) isResizing
    listeners,        \* the document's mousemove / mouseup listeners
    bodyCursor,       \* document.body.style.cursor
    bodyUserSelect,   \* document.body.style.userSelect
    containerRect,    \* pane -> getBoundingClientRect() of its container
    pointer,          \* clientX, clientY of the last mouse event
    domEvent,         \* the kind of the last mouse event (history)
    eventTarget,      \* the divider it was dispatched on, or "document" (history)
    \* ---- Watchlists.tsx: the interval of the real-time effect ----
    intervalGen,      \* parity of the number of setInterval calls so far: tells
                      \* the interval that is set from the one set before it
    \* ---- Dashboard.tsx: loading and refresh ----
    dashMounted,      \* the Dashboard instance is mounted
    dashLoading,      \* useState(true) loading
    dashLoads,        \* loadWatchlistStocks calls awaiting their response
    dashRefreshes,    \* clicks on the Dashboard's Refresh button so far (history)
    scriptLoads       \* tv.js <script> elements appended to document.head so far

chartVars == <<chartMounted, scriptState, isLoading, chartError, selectedStock,
               refreshKey, widgetRef, widgets, stockMetrics, metricsLoading,
               metricsInFlight, ctorCalls, firstRenderStock, chartEvent>>

watchVars == <<wlMounted, wlLoading, watchlists, wlTimers, cycles, wlOps,
               loadInFlight, nextWlId, nextItemId, ticks, edits, intervalGen>>

newsVars == <<newsMounted, newsOpen, newsStock, news, newsLoading, newsError,
              newsInFlight>>

chatVars == <<chatMounted, selectedModel, messages, chatLoading, chatError,
              storage, chatInFlight, chatEffects, sends, chatEvent>>

searchVars == <<searchQuery, searchResults, isSearching, searchInFlight, typed>>

symbolVars == <<symbolInput, dashSelectedStock, yahooSymbol, chartSelectedSymbol,
                widgetSymbol, asxSymbol, stockSymbol>>

resizeVars == <<layoutMounted, size, isResizing, listeners, bodyCursor,
                bodyUserSelect, containerRect, pointer, domEvent, eventTarget>>

dashVars == <<dashMounted, dashLoading, dashLoads, dashRefreshes, scriptLoads>>

vars == <<chartVars, watchVars, newsVars, chatVars, searchVars, symbolVars,
          resizeVars, dashVars>>

(***************************************************************************)
(* TradingViewChart: the widget handle.                                    *)
(* A handle is a record: the symbol it was constructed with, the number of *)
(* calls of its remove method, whether that call threw, and the caller of  *)
(* the teardown.                                                           *)
(***************************************************************************)
NoWidget == 0

\* The part of the component's state createWidget / removeWidget act on.
WState(ref, ws, err, calls) == [ref |-> ref, ws |-> ws, err |-> err, calls |-> calls]

\* chartContainerRef.current is attached exactly when the third branch of the
\* chart area is rendered: not loading, no chart error (and mounted).
ContainerMounted(mounted, loading, err) ==
    mounted /\ ~loading /\ err = "none"

\* window.TradingView is defined once tv.js has been evaluated.
TradingViewLoaded(script) == script = "loaded"

\* removeWidget without the finally clause: a throwing remove leaves the handle.
RemoveWidgetNoFinally(st, throws, caller) ==
    IF st.ref # NoWidget
    THEN [st EXCEPT
            !.ws[st.ref].teardowns = @ + 1,
            !.ws[st.ref].threw = throws,
            !.ws[st.ref].by = caller,
            !.ref = IF throws THEN st.ref ELSE NoWidget]
    ELSE st

\* removeWidget that drops the handle without calling its remove method.
RemoveWidgetNoCall(st, throws, caller) ==
    [st EXCEPT !.ref = NoWidget]

\* removeWidget: try { remove() } catch { warn } finally { widgetRef = null }.
RemoveWidget(st, throws, caller) ==
    IF st.ref # NoWidget
    THEN [st EXCEPT
            !.ws[st.ref].teardowns = @ + 1,
            !.ws[st.ref].threw = throws,
            !.ws[st.ref].by = caller,
            !.ref = NoWidget]
    ELSE st

NewWidget(sym) == [teardowns |-> 0, threw |-> FALSE, by |-> "none", symbol |-> sym]

\* createWidget that does not tear the previous widget down first.
CreateWidgetNoRemove(st, container, tv, sym, rmThrows, ctorOk) ==
    IF ~container \/ ~tv
    THEN st
    ELSE IF ctorOk
         THEN [st EXCEPT !.ws = Append(st.ws, NewWidget(sym)),
                         !.ref = Len(st.ws) + 1,
                         !.err = "none",
                         !.calls = @ + 1]
         ELSE [st EXCEPT !.err = "create", !.calls = @ + 1]

\* createWidget that does not check the container and the library.
CreateWidgetNoGuard(st, container, tv, sym, rmThrows, ctorOk) ==
    LET r == RemoveWidget(st, rmThrows, "create") IN
    IF ctorOk
    THEN [r EXCEPT !.ws = Append(r.ws, NewWidget(sym)),
                   !.ref = Len(r.ws) + 1,
                   !.err = "none",
                   !.calls = @ + 1]
    ELSE [r EXCEPT !.err = "create", !.calls = @ + 1]

\* createWidget: guard; removeWidget(); setChartError(null); new widget;
\* a throwing constructor is caught and sets the chart error.
CreateWidget(st, container, tv, sym, rmThrows, ctorOk) ==
    IF ~container \/ ~tv
    THEN st
    ELSE LET r == RemoveWidget(st, rmThrows, "create") IN
         IF ctorOk
         THEN [r EXCEPT !.ws = Append(r.ws, NewWidget(sym)),
                        !.ref = Len(r.ws) + 1,
                        !.err = "none",
                        !.calls = @ + 1]
         ELSE [r EXCEPT !.err = "create", !.calls = @ + 1]

ChartState == WState(widgetRef, widgets, chartError, ctorCalls)

\* Writes a WState back to the component.
SetChartState(st) ==
    /\ widgetRef' = st.ref
    /\ widgets' = st.ws
    /\ chartError' = st.err
    /\ ctorCalls' = st.calls

\* useEffect([selectedStock, isLoading, refreshKey]): createWidget when the
\* container is attached, the library is present and loading is over.
CreateEffect(st, mounted, loading, script, sym, rmThrows, ctorOk) ==
    IF ContainerMounted(mounted, loading, st.err) /\ TradingViewLoaded(script) /\ ~loading
    THEN CreateWidget(st, ContainerMounted(mounted, loading, st.err),
                      TradingViewLoaded(script), sym, rmThrows, ctorOk)
    ELSE st

\* State after the first render and its effects: the script is requested, the
\* metrics of the initial instrument are being fetched, no container yet.
ChartFirstRender ==
    /\ chartMounted = TRUE
    /\ scriptState = "pending"
    /\ isLoading = TRUE
    /\ chartError = "none"
    /\ selectedStock \in Stocks
    /\ firstRenderStock = selectedStock
    /\ refreshKey = 0
    /\ widgetRef = NoWidget
    /\ widgets = << >>
    /\ ctorCalls = 0
    /\ stockMetrics = "null"
    /\ metricsLoading = TRUE
    /\ metricsInFlight = [s \in Stocks |-> IF s = selectedStock THEN 1 ELSE 0]
    /\ chartEvent = "mount"

\* script.onload: setIsLoading(false); createWidget(); then the re-render and
\* the create effect.  Whether the onload's own createWidget already sees the
\* container depends on whether React commits the state update synchronously
\* (legacy mode outside a React event handler) or batches it.
ScriptOnLoad ==
    /\ scriptState = "pending"
    /\ scriptState' = "loaded"
    /\ chartEvent' = "onload"
    /\ UNCHANGED <<watchVars, newsVars, chatVars, searchVars, symbolVars, resizeVars, dashVars>>
    /\ \E sync \in BOOLEAN, rm1 \in BOOLEAN, ok1 \in BOOLEAN, rm2 \in BOOLEAN, ok2 \in BOOLEAN :
         LET loadingSeen == IF sync /\ chartMounted THEN FALSE ELSE isLoading
             st1 == CreateWidget(ChartState,
                                 ContainerMounted(chartMounted, loadingSeen, chartError),
                                 TRUE, firstRenderStock, rm1, ok1)
             loadingNow == IF chartMounted THEN FALSE ELSE isLoading
             st2 == IF chartMounted
                    THEN CreateEffect(st1, chartMounted, loadingNow, "loaded",
                                      selectedStock, rm2, ok2)
                    ELSE st1
         IN /\ st2.calls <= MaxCtorCalls
            /\ isLoading' = loadingNow
            /\ SetChartState(st2)
    /\ UNCHANGED <<chartMounted, selectedStock, refreshKey, stockMetrics,
                   metricsLoading, metricsInFlight, firstRenderStock>>

\* script.onerror: setChartError(...); setIsLoading(false); the create effect
\* re-runs for the changed isLoading.
ScriptOnError ==
    /\ scriptState = "pending"
    /\ scriptState' = "failed"
    /\ chartEvent' = "onerror"
    /\ UNCHANGED <<watchVars, newsVars, chatVars, searchVars, symbolVars, resizeVars, dashVars>>
    /\ \E rm \in BOOLEAN, ok \in BOOLEAN :
         LET st0 == IF chartMounted THEN [ChartState EXCEPT !.err = "script"] ELSE ChartState
             loadingNow == IF chartMounted THEN FALSE ELSE isLoading
             st1 == IF chartMounted
                    THEN CreateEffect(st0, chartMounted, loadingNow, "failed",
                                      selectedStock, rm, ok)
                    ELSE st0
         IN /\ isLoading' = loadingNow
            /\ SetChartState(st1)
    /\ UNCHANGED <<chartMounted, selectedStock, refreshKey, stockMetrics,
                   metricsLoading, metricsInFlight, firstRenderStock>>

\* fetchStockMetrics(symbol) up to its await: setMetricsLoading(true); fetch.
StartMetrics(inFlight, sym) == [inFlight EXCEPT ![sym] = @ + 1]

\* handleStockSelect / the propSelectedStock effect: setSelectedStock(s), then
\* the create effect and the metrics effect run for the new instrument.
SelectStock(s) ==
    /\ chartMounted
    /\ s # selectedStock
    /\ metricsInFlight[s] < MaxMetricsInFlight
    /\ selectedStock' = s
    /\ chartEvent' = "select"
    /\ UNCHANGED <<watchVars, newsVars, chatVars, searchVars, symbolVars, resizeVars, dashVars>>
    /\ \E rm \in BOOLEAN, ok \in BOOLEAN :
         LET st1 == CreateEffect(ChartState, chartMounted, isLoading, scriptState, s, rm, ok)
         IN /\ st1.calls <= MaxCtorCalls
            /\ SetChartState(st1)
    /\ metricsLoading' = TRUE
    /\ metricsInFlight' = StartMetrics(metricsInFlight, s)
    /\ UNCHANGED <<chartMounted, scriptState, isLoading, refreshKey, stockMetrics,
                   firstRenderStock>>

\* The Refresh button: setRefreshKey(k => k + 1); the create effect re-runs.
RefreshClick ==
    /\ chartMounted
    /\ refreshKey < MaxRefresh
    /\ refreshKey' = refreshKey + 1
    /\ chartEvent' = "refresh"
    /\ UNCHANGED <<watchVars, newsVars, chatVars, searchVars, symbolVars, resizeVars, dashVars>>
    /\ \E rm \in BOOLEAN, ok \in BOOLEAN :
         LET st1 == CreateEffect(ChartState, chartMounted, isLoading, scriptState,
                                 selectedStock, rm, ok)
         IN /\ st1.calls <= MaxCtorCalls
            /\ SetChartState(st1)
    /\ UNCHANGED <<chartMounted, scriptState, isLoading, selectedStock, stockMetrics,
                   metricsLoading, metricsInFlight, firstRenderStock>>

\* The Retry button of the Chart Error view: onClick={createWidget}.
RetryClick ==
    /\ chartMounted
    /\ ~isLoading
    /\ chartError # "none"
    /\ chartEvent' = "retry"
    /\ UNCHANGED <<watchVars, newsVars, chatVars, searchVars, symbolVars, resizeVars, dashVars>>
    /\ \E rm \in BOOLEAN, ok \in BOOLEAN :
         LET st1 == CreateWidget(ChartState,
                                 ContainerMounted(chartMounted, isLoading, chartError),
                                 TradingViewLoaded(scriptState), selectedStock, rm, ok)
         IN /\ st1.calls <= MaxCtorCalls
            /\ SetChartState(st1)
    /\ UNCHANGED <<chartMounted, scriptState, isLoading, selectedStock, refreshKey,
                   stockMetrics, metricsLoading, metricsInFlight, firstRenderStock>>

MetricsOutcomes == {"ok", "noData", "httpError", "networkError"}

\* The continuation of fetchStockMetrics after its await: setStockMetrics(...)
\* or setStockMetrics(null), finally setMetricsLoading(false).  React drops
\* the state updates of an unmounted component.
MetricsSettle(s, outcome) ==
    /\ metricsInFlight[s] > 0
    /\ metricsInFlight' = [metricsInFlight EXCEPT ![s] = @ - 1]
    /\ chartEvent' = "metrics"
    /\ UNCHANGED <<watchVars, newsVars, chatVars, searchVars, symbolVars, resizeVars, dashVars>>
    /\ IF chartMounted
       THEN /\ stockMetrics' = IF outcome = "ok" THEN s ELSE "null"
            /\ metricsLoading' = FALSE
       ELSE UNCHANGED <<stockMetrics, metricsLoading>>
    /\ UNCHANGED <<chartMounted, scriptState, isLoading, chartError, selectedStock,
                   refreshKey, widgetRef, widgets, ctorCalls, firstRenderStock>>

\* An unmount whose effect cleanup does not call removeWidget().
ChartUnmountNoCleanup ==
    /\ chartMounted
    /\ chartMounted' = FALSE
    /\ chartEvent' = "unmount"
    /\ UNCHANGED <<watchVars, newsVars, chatVars, searchVars, symbolVars, resizeVars, dashVars>>
    /\ UNCHANGED <<scriptState, isLoading, chartError, selectedStock, refreshKey,
                   widgetRef, widgets, ctorCalls, stockMetrics, metricsLoading,
                   metricsInFlight, firstRenderStock>>

\* Unmount: the cleanup of the mount effect calls removeWidget().
ChartUnmount ==
    /\ chartMounted
    /\ chartMounted' = FALSE
    /\ chartEvent' = "unmount"
    /\ UNCHANGED <<watchVars, newsVars, chatVars, searchVars, symbolVars, resizeVars, dashVars>>
    /\ \E rm \in BOOLEAN : SetChartState(RemoveWidget(ChartState, rm, "unmount"))
    /\ UNCHANGED <<scriptState, isLoading, selectedStock, refreshKey, stockMetrics,
                   metricsLoading, metricsInFlight, firstRenderStock>>

NextChart ==
    \/ ScriptOnLoad
    \/ ScriptOnError
    \/ \E s \in Stocks : SelectStock(s)
    \/ RefreshClick
    \/ RetryClick
    \/ \E s \in Stocks, o \in MetricsOutcomes : MetricsSettle(s, o)
    \/ ChartUnmount


(***************************************************************************)
(* Watchlists: the 30 s refresh loop and the watchlist edits.              *)
(* An item is [id, symbol, price]; price stands for the quote fields that  *)
(* fetchRealTimeData replaces together (0: the stored snapshot).  An       *)
(* undefined items array is the empty sequence: every use in the component *)
(* treats the two alike.                                                   *)
(***************************************************************************)
WlSymbols == {"BHP", "RIO"}
Prices == {1}
\* What a request can come back with: a quote, or one of the failures.
QuoteResponses ==
    [kind : {"ok"}, price : Prices]
      \cup [kind : {"networkError", "httpError", "noData", "noPrice"}, price : {0}]

\* The state of one getStockData call of a cycle.
Pending == [st |-> "pending", price |-> 0]
Null == [st |-> "null", price |-> 0]
Data(p) == [st |-> "data", price |-> p]

\* What the backing store holds when the view mounts.
StoredWatchlists ==
    << [id |-> 1,
        items |-> << [symbol |-> "BHP", price |-> 0, id |-> 1],
                     [symbol |-> "RIO", price |-> 0, id |-> 2] >>] >>

RemoveAt(seq, k) ==
    [i \in 1..(Len(seq) - 1) |-> IF i < k THEN seq[i] ELSE seq[i + 1]]

\* ASXApiService.getStockData: the data, or null on a failed request, a
\* non-success status, an empty chart result or a missing price.
GetStockData(resp) == IF resp.kind = "ok" THEN Data(resp.price) ELSE Null

NoItems(wls) == \A w \in DOMAIN wls : Len(wls[w].items) = 0

\* A cycle right after its fan-out: one pending fetch per item of the closure.
NewCycle(snap) ==
    [snap |-> snap,
     res |-> [w \in DOMAIN snap |-> [i \in DOMAIN snap[w].items |-> Pending]]]

AllSettled(c) ==
    \A w \in DOMAIN c.res : \A i \in DOMAIN c.res[w] : c.res[w][i] # Pending

\* A merge that gives up the whole cycle when one fetch failed.
MergeCycleAllOrNothing(c) ==
    IF \E w \in DOMAIN c.res : \E i \in DOMAIN c.res[w] : c.res[w][i] = Null
    THEN c.snap
    ELSE [w \in DOMAIN c.snap |->
            [c.snap[w] EXCEPT !.items =
                [i \in DOMAIN c.snap[w].items |->
                    [c.snap[w].items[i] EXCEPT !.price = c.res[w][i].price]]]]

\* updatedWatchlists: per item, the fetched quote, or the item of the closure
\* when getStockData returned null.
MergeCycle(c) ==
    [w \in DOMAIN c.snap |->
        [c.snap[w] EXCEPT !.items =
            [i \in DOMAIN c.snap[w].items |->
                IF c.res[w][i] = Null
                THEN c.snap[w].items[i]
                ELSE [c.snap[w].items[i] EXCEPT !.price = c.res[w][i].price]]]]

\* A setWatchlists that also takes effect on an unmounted component.
SetWatchlistsUnguarded(value) ==
    /\ watchlists' = value
    /\ wlTimers' = << value >>
    /\ intervalGen' = 1 - intervalGen

\* A real-time effect without its cleanup: the new interval is set while the
\* previous one keeps running.
SetWatchlistsKeepsInterval(value) ==
    IF wlMounted
    THEN /\ watchlists' = value
         /\ wlTimers' = Append(wlTimers, value)
         /\ intervalGen' = 1 - intervalGen
    ELSE UNCHANGED <<watchlists, wlTimers, intervalGen>>

\* setWatchlists(value) with the re-render and the real-time effect, whose
\* cleanup clears the interval and whose body sets a new one closing over the
\* new array.  React drops the update of an unmounted component.
SetWatchlists(value) ==
    IF wlMounted
    THEN /\ watchlists' = value
         /\ wlTimers' = << value >>
         /\ intervalGen' = 1 - intervalGen
    ELSE UNCHANGED <<watchlists, wlTimers, intervalGen>>

\* State after the first render and its effects: loadWatchlists is awaiting
\* the store, the interval is set over the empty list.
WatchFirstRender ==
    /\ wlMounted = TRUE
    /\ wlLoading = TRUE
    /\ watchlists = << >>
    /\ wlTimers = << << >> >>
    /\ intervalGen = 1
    /\ cycles = << >>
    /\ wlOps = << >>
    /\ loadInFlight = TRUE
    /\ nextWlId = 2
    /\ nextItemId = 3
    /\ ticks = 0
    /\ edits = 0

\* loadWatchlists after its awaits: setWatchlists(watchlistsWithStocks), or
\* nothing when getWatchlists threw; finally setLoading(false).  A watchlist
\* whose getWatchlistWithStocks threw is kept without items.
LoadSettle(outcome) ==
    /\ loadInFlight
    /\ loadInFlight' = FALSE
    /\ wlLoading' = IF wlMounted THEN FALSE ELSE wlLoading
    /\ CASE outcome = "ok" -> SetWatchlists(StoredWatchlists)
         [] outcome = "noStocks" ->
              SetWatchlists([w \in DOMAIN StoredWatchlists |->
                               [StoredWatchlists[w] EXCEPT !.items = << >>]])
         [] OTHER -> UNCHANGED <<watchlists, wlTimers, intervalGen>>
    /\ UNCHANGED <<wlMounted, cycles, wlOps, nextWlId, nextItemId, ticks, edits>>
    /\ UNCHANGED <<chartVars, newsVars, chatVars, searchVars, symbolVars, resizeVars, dashVars>>

\* One firing of an interval: fetchRealTimeData of its closure up to the
\* first await.  With no item to fetch nothing is awaited on the network and
\* setWatchlists runs in the same task.
FetchRealTimeData(t) ==
    /\ IF NoItems(wlTimers[t])
       THEN /\ SetWatchlists(wlTimers[t])
            /\ UNCHANGED cycles
       ELSE /\ cycles' = Append(cycles, NewCycle(wlTimers[t]))
            /\ UNCHANGED <<watchlists, wlTimers, intervalGen>>
    /\ UNCHANGED <<wlMounted, wlLoading, wlOps, loadInFlight, nextWlId, nextItemId,
                   edits>>
    /\ UNCHANGED <<chartVars, newsVars, chatVars, searchVars, symbolVars, resizeVars, dashVars>>

\* The firing of interval t, counted.
TimerTick(t) ==
    /\ t \in DOMAIN wlTimers
    /\ ticks < MaxTicks
    /\ ticks' = ticks + 1
    /\ FetchRealTimeData(t)

\* One getStockData of a cycle settles.  When it is the last one, Promise.all
\* resolves and the continuation of fetchRealTimeData runs in the same task:
\* setWatchlists(updatedWatchlists).
FetchSettle(k, w, i, resp) ==
    /\ k \in DOMAIN cycles
    /\ w \in DOMAIN cycles[k].res
    /\ i \in DOMAIN cycles[k].res[w]
    /\ cycles[k].res[w][i] = Pending
    /\ LET c == [cycles[k] EXCEPT !.res[w][i] = GetStockData(resp)] IN
       IF AllSettled(c)
       THEN /\ cycles' = RemoveAt(cycles, k)
            /\ SetWatchlists(MergeCycle(c))
       ELSE /\ cycles' = [cycles EXCEPT ![k] = c]
            /\ UNCHANGED <<watchlists, wlTimers, intervalGen>>
    /\ UNCHANGED <<wlMounted, wlLoading, wlOps, loadInFlight, nextWlId, nextItemId,
                   ticks, edits>>
    /\ UNCHANGED <<chartVars, newsVars, chatVars, searchVars, symbolVars, resizeVars, dashVars>>

WlIds(wls) == {wls[w].id : w \in DOMAIN wls}
ItemIds(wl) == {wl.items[i].id : i \in DOMAIN wl.items}

\* isStockInWatchlist(watchlistId, symbol) over the rendered watchlists.
IsStockInWatchlist(wls, wid, sym) ==
    \E w \in DOMAIN wls :
        /\ wls[w].id = wid
        /\ \E i \in DOMAIN wls[w].items : wls[w].items[i].symbol = sym

\* A handler up to its first await: the request is sent, the handler keeps
\* the watchlists of the render it was created in.
StartOp(op) ==
    /\ wlMounted
    /\ ~wlLoading
    /\ edits < MaxEdits
    /\ edits' = edits + 1
    /\ wlOps' = Append(wlOps, op)
    /\ UNCHANGED <<wlMounted, wlLoading, watchlists, wlTimers, intervalGen, cycles, loadInFlight,
                   nextWlId, nextItemId, ticks>>
    /\ UNCHANGED <<chartVars, newsVars, chatVars, searchVars, symbolVars, resizeVars, dashVars>>

\* addWatchlist (the name is not empty).
AddWatchlistStart ==
    /\ StartOp([kind |-> "addWatchlist", snap |-> watchlists, wid |-> 0, arg |-> 0])

\* deleteWatchlist(watchlistId).
DeleteWatchlistStart(wid) ==
    /\ wid \in WlIds(watchlists)
    /\ StartOp([kind |-> "deleteWatchlist", snap |-> watchlists, wid |-> wid, arg |-> 0])

\* removeFromWatchlist(watchlistId, itemId).
RemoveFromWatchlistStart(wid, itemId) ==
    /\ \E w \in DOMAIN watchlists :
          watchlists[w].id = wid /\ itemId \in ItemIds(watchlists[w])
    /\ StartOp([kind |-> "removeFromWatchlist", snap |-> watchlists, wid |-> wid,
                arg |-> itemId])

\* The click on a search result: addStockToWatchlist unless isStockInWatchlist.
AddStockStart(wid, sym) ==
    /\ wid \in WlIds(watchlists)
    /\ ~IsStockInWatchlist(watchlists, wid, sym)
    /\ StartOp([kind |-> "addStockToWatchlist", snap |-> watchlists, wid |-> wid,
                arg |-> sym])

\* What the handler passes to setWatchlists once the store has answered.
OpResult(op, newId, price) ==
    CASE op.kind = "addWatchlist" ->
           Append(op.snap, [id |-> newId, items |-> << >>])
      [] op.kind = "deleteWatchlist" ->
           SelectSeq(op.snap, LAMBDA wl : wl.id # op.wid)
      [] op.kind = "removeFromWatchlist" ->
           [w \in DOMAIN op.snap |->
              IF op.snap[w].id = op.wid
              THEN [op.snap[w] EXCEPT !.items =
                        SelectSeq(op.snap[w].items, LAMBDA it : it.id # op.arg)]
              ELSE op.snap[w]]
      [] op.kind = "addStockToWatchlist" ->
           [w \in DOMAIN op.snap |->
              IF op.snap[w].id = op.wid
              THEN [op.snap[w] EXCEPT !.items =
                        Append(op.snap[w].items,
                               [symbol |-> op.arg, price |-> price, id |-> newId])]
              ELSE op.snap[w]]

\* The continuation of a handler after its awaits.  A request the store
\* rejects (or, for addStockToWatchlist, a null getStockData) ends the handler
\* in its catch or early return; otherwise the store has assigned the id and
\* setWatchlists is called with the handler's watchlists changed.
OpSettle(k, resp) ==
    /\ k \in DOMAIN wlOps
    /\ wlOps' = RemoveAt(wlOps, k)
    /\ LET op == wlOps[k] IN
       IF GetStockData(resp) # Null
       THEN /\ nextWlId' = IF op.kind = "addWatchlist" THEN nextWlId + 1 ELSE nextWlId
            /\ nextItemId' = IF op.kind = "addStockToWatchlist"
                             THEN nextItemId + 1 ELSE nextItemId
            /\ SetWatchlists(OpResult(op,
                                      IF op.kind = "addWatchlist" THEN nextWlId
                                      ELSE nextItemId,
                                      GetStockData(resp).price))
       ELSE UNCHANGED <<watchlists, wlTimers, intervalGen, nextWlId, nextItemId>>
    /\ UNCHANGED <<wlMounted, wlLoading, cycles, loadInFlight, ticks, edits>>
    /\ UNCHANGED <<chartVars, newsVars, chatVars, searchVars, symbolVars, resizeVars, dashVars>>

\* Unmount: the cleanup of the real-time effect clears the interval.
WatchUnmount ==
    /\ wlMounted
    /\ wlMounted' = FALSE
    /\ wlTimers' = << >>
    /\ UNCHANGED <<wlLoading, watchlists, cycles, wlOps, loadInFlight, nextWlId,
                   nextItemId, ticks, edits, intervalGen>>
    /\ UNCHANGED <<chartVars, newsVars, chatVars, searchVars, symbolVars, resizeVars, dashVars>>

(***************************************************************************)
(* The refresh loop over an unbounded time: firings and edits are not      *)
(* counted.  To keep the states finite, one cycle and one edit are         *)
(* followed at a time, the edits are removals and additions of items, and  *)
(* the store hands out the least item id not in use.                       *)
(***************************************************************************)
\* The firing of interval t when no cycle is under way.
LiveTimerTick(t) ==
    /\ t \in DOMAIN wlTimers
    /\ cycles = << >>
    /\ UNCHANGED ticks
    /\ FetchRealTimeData(t)

\* The id the store assigns to an item added to the watchlists wls.
FreeItemId(wls) ==
    LET used == UNION {ItemIds(wls[w]) : w \in DOMAIN wls}
    IN CHOOSE n \in 1..(Cardinality(used) + 1) :
          n \notin used /\ \A m \in 1..(n - 1) : m \in used

\* An edit handler up to its first await, when no other edit is under way.
LiveStartOp(op) ==
    /\ wlMounted
    /\ ~wlLoading
    /\ wlOps = << >>
    /\ wlOps' = << op >>
    /\ UNCHANGED <<wlMounted, wlLoading, watchlists, wlTimers, intervalGen, cycles,
                   loadInFlight, nextWlId, nextItemId, ticks, edits>>
    /\ UNCHANGED <<chartVars, newsVars, chatVars, searchVars, symbolVars, resizeVars, dashVars>>

\* removeFromWatchlist(watchlistId, itemId).
LiveRemoveStart(wid, itemId) ==
    /\ \E w \in DOMAIN watchlists :
          watchlists[w].id = wid /\ itemId \in ItemIds(watchlists[w])
    /\ LiveStartOp([kind |-> "removeFromWatchlist", snap |-> watchlists, wid |-> wid,
                    arg |-> itemId])

\* The click on a search result: addStockToWatchlist unless isStockInWatchlist.
LiveAddStockStart(wid, sym) ==
    /\ wid \in WlIds(watchlists)
    /\ ~IsStockInWatchlist(watchlists, wid, sym)
    /\ LiveStartOp([kind |-> "addStockToWatchlist", snap |-> watchlists, wid |-> wid,
                    arg |-> sym])

\* The continuation of the edit handler after its awaits.
LiveOpSettle(resp) ==
    /\ wlOps # << >>
    /\ wlOps' = << >>
    /\ IF GetStockData(resp) # Null
       THEN SetWatchlists(OpResult(wlOps[1], FreeItemId(wlOps[1].snap),
                                   GetStockData(resp).price))
       ELSE UNCHANGED <<watchlists, wlTimers, intervalGen>>
    /\ UNCHANGED <<wlMounted, wlLoading, cycles, loadInFlight, nextWlId, nextItemId,
                   ticks, edits>>
    /\ UNCHANGED <<chartVars, newsVars, chatVars, searchVars, symbolVars, resizeVars, dashVars>>

\* The positions of the pending fetches of cycle k.
PendingFetches(k) ==
    {p \in UNION {{<<w, i>> : i \in DOMAIN cycles[k].res[w]} : w \in DOMAIN cycles[k].res} :
        cycles[k].res[p[1]][p[2]] = Pending}

NextWatch ==
    \/ \E o \in {"ok", "noStocks", "failed"} : LoadSettle(o)
    \/ \E t \in DOMAIN wlTimers : TimerTick(t)
    \/ \E k \in DOMAIN cycles : \E p \in PendingFetches(k), r \in QuoteResponses :
          FetchSettle(k, p[1], p[2], r)
    \/ AddWatchlistStart
    \/ \E wid \in WlIds(watchlists) : DeleteWatchlistStart(wid)
    \/ \E w \in DOMAIN watchlists : \E it \in ItemIds(watchlists[w]) :
          RemoveFromWatchlistStart(watchlists[w].id, it)
    \/ \E wid \in WlIds(watchlists), sym \in WlSymbols : AddStockStart(wid, sym)
    \/ \E k \in DOMAIN wlOps, r \in QuoteResponses : OpSettle(k, r)
    \/ WatchUnmount

\* A response arrives: the store's to loadWatchlists or to an edit, or the
\* quote vendor's to a fetch of a cycle.
LiveResponse ==
    \/ \E o \in {"ok", "noStocks", "failed"} : LoadSettle(o)
    \/ \E k \in DOMAIN cycles : \E p \in PendingFetches(k), r \in QuoteResponses :
          FetchSettle(k, p[1], p[2], r)
    \/ \E r \in QuoteResponses : LiveOpSettle(r)

\* The interval set by the g-th run of the real-time effect (mod 2) fires.
LiveIntervalFires(g) ==
    /\ intervalGen = g
    /\ \E t \in DOMAIN wlTimers : LiveTimerTick(t)

NextWatchLive ==
    \/ LiveResponse
    \/ \E g \in {0, 1} : LiveIntervalFires(g)
    \/ \E w \in DOMAIN watchlists : \E it \in ItemIds(watchlists[w]) :
          LiveRemoveStart(watchlists[w].id, it)
    \/ \E wid \in WlIds(watchlists), sym \in WlSymbols : LiveAddStockStart(wid, sym)
    \/ WatchUnmount

(***************************************************************************)
(* News: fetchNews for the selected instrument.                            *)
(***************************************************************************)
\* fetchNews up to its first await: setLoading(true); setError(null); fetch.
StartNews(inFlight, sym) == [inFlight EXCEPT ![sym] = @ + 1]

\* State after the first render and its effect (isOpen, an instrument selected).
NewsFirstRender ==
    /\ newsMounted = TRUE
    /\ newsOpen = TRUE
    /\ newsStock \in Stocks
    /\ news = "none"
    /\ newsLoading = TRUE
    /\ newsError = FALSE
    /\ newsInFlight = [s \in Stocks |-> IF s = newsStock THEN 1 ELSE 0]

\* The selectedStock prop changes; the effect calls fetchNews when isOpen.
NewsSelect(s) ==
    /\ newsMounted
    /\ s # newsStock
    /\ newsInFlight[s] < MaxNewsInFlight
    /\ newsStock' = s
    /\ IF newsOpen
       THEN /\ newsLoading' = TRUE
            /\ newsError' = FALSE
            /\ newsInFlight' = StartNews(newsInFlight, s)
       ELSE UNCHANGED <<newsLoading, newsError, newsInFlight>>
    /\ UNCHANGED <<newsMounted, newsOpen, news>>
    /\ UNCHANGED <<chartVars, watchVars, chatVars, searchVars, symbolVars, resizeVars, dashVars>>

\* onToggle: the isOpen prop flips; the effect calls fetchNews when it opens.
NewsToggle ==
    /\ newsMounted
    /\ newsInFlight[newsStock] < MaxNewsInFlight
    /\ newsOpen' = ~newsOpen
    /\ IF newsOpen'
       THEN /\ newsLoading' = TRUE
            /\ newsError' = FALSE
            /\ newsInFlight' = StartNews(newsInFlight, newsStock)
       ELSE UNCHANGED <<newsLoading, newsError, newsInFlight>>
    /\ UNCHANGED <<newsMounted, newsStock, news>>
    /\ UNCHANGED <<chartVars, watchVars, chatVars, searchVars, symbolVars, resizeVars, dashVars>>

\* The continuation of fetchNews after its awaits: setNews(sortedNews) (empty
\* when the responses were not ok), or setError on an exception; finally
\* setLoading(false).  React drops the updates of an unmounted component.
NewsSettle(s, outcome) ==
    /\ newsInFlight[s] > 0
    /\ newsInFlight' = [newsInFlight EXCEPT ![s] = @ - 1]
    /\ IF newsMounted
       THEN /\ news' = CASE outcome = "ok" -> s
                         [] outcome = "httpError" -> "none"
                         [] OTHER -> news
            /\ newsError' = IF outcome = "networkError" THEN TRUE ELSE newsError
            /\ newsLoading' = FALSE
       ELSE UNCHANGED <<news, newsError, newsLoading>>
    /\ UNCHANGED <<newsMounted, newsOpen, newsStock>>
    /\ UNCHANGED <<chartVars, watchVars, chatVars, searchVars, symbolVars, resizeVars, dashVars>>

NewsUnmount ==
    /\ newsMounted
    /\ newsMounted' = FALSE
    /\ UNCHANGED <<newsOpen, newsStock, news, newsLoading, newsError, newsInFlight>>
    /\ UNCHANGED <<chartVars, watchVars, chatVars, searchVars, symbolVars, resizeVars, dashVars>>

NextNews ==
    \/ \E s \in Stocks : NewsSelect(s)
    \/ NewsToggle
    \/ \E s \in Stocks, o \in {"ok", "httpError", "networkError"} : NewsSettle(s, o)
    \/ NewsUnmount

(***************************************************************************)
(* Chatbox: one persisted thread per model.                                *)
(* A handler or continuation commits a render; the passive effects of that *)
(* render (load on a changed selectedModel, save on changed messages or    *)
(* selectedModel) run afterwards, in a step of their own.  React runs the  *)
(* pending effects before it processes the next update.                    *)
(***************************************************************************)
Models == {"llama3-70b-8192", "deepseek-r1-distill-llama-70b"}
Greeting == << "greeting" >>

\* A localStorage entry: no item under the key, or the saved thread.
Absent == [present |-> FALSE, thread |-> << >>]
Saved(thread) == [present |-> TRUE, thread |-> thread]

\* What localStorage may hold for a model when the Chatbox mounts.
PersistedThreads ==
    {Absent, Saved(<< >>), Saved(Greeting), Saved(<< "greeting", "user", "ai" >>)}

\* The load effect: the saved thread, or the seeded greeting.
LoadThread(store, model) ==
    IF store[model].present THEN store[model].thread ELSE Greeting

\* The part of the component's state the handlers and effects act on.
ChatState ==
    [messages |-> messages, storage |-> storage, loading |-> chatLoading,
     model |-> selectedModel, effects |-> chatEffects, error |-> chatError]

\* Writes a ChatState back to the component.
SetChatState(st) ==
    /\ selectedModel' = st.model
    /\ messages' = st.messages
    /\ storage' = st.storage
    /\ chatEffects' = st.effects
    /\ chatLoading' = st.loading
    /\ chatError' = st.error

\* The effects of a render with no load effect: only the save effect runs.
RunEffectsSaveOnly(st) ==
    CASE st.effects = "none" -> st
      [] OTHER ->
           [st EXCEPT !.storage[st.model] = Saved(st.messages), !.effects = "none"]

\* The pending effects of the committed render, in declaration order: the
\* load effect reads the item and calls setMessages, the save effect writes
\* the messages of this render; the re-render for setMessages follows and
\* leaves its save effect pending.
RunEffects(st) ==
    CASE st.effects = "none" -> st
      [] st.effects = "save" ->
           [st EXCEPT !.storage[st.model] = Saved(st.messages), !.effects = "none"]
      [] OTHER ->
           [st EXCEPT !.storage[st.model] = Saved(st.messages),
                      !.messages = LoadThread(st.storage, st.model),
                      !.effects = "save"]

\* sendMessage that also forgets the user's message when it sets the error.
SendMessageSettledDropsMessage(st, ok) ==
    IF ok
    THEN [st EXCEPT !.messages = Append(@, "ai"), !.loading = FALSE, !.effects = "save"]
    ELSE [st EXCEPT !.messages = SubSeq(@, 1, Len(@) - 1), !.error = TRUE,
                    !.loading = FALSE, !.effects = "save"]

\* sendMessage that issues the request without setIsLoading(true).
SendMessageNoLoading(st) ==
    [st EXCEPT !.messages = Append(@, "user"), !.error = FALSE, !.effects = "save"]

\* sendMessage up to its await: setError(null); the user's message is
\* appended; setIsLoading(true).
SendMessage(st) ==
    [st EXCEPT !.messages = Append(@, "user"), !.error = FALSE, !.loading = TRUE,
               !.effects = "save"]

\* sendMessage after its await: the reply is appended to the current
\* messages, or setError on a failed request or a non-success status;
\* finally setIsLoading(false).
SendMessageSettled(st, ok) ==
    IF ok
    THEN [st EXCEPT !.messages = Append(@, "ai"), !.loading = FALSE, !.effects = "save"]
    ELSE [st EXCEPT !.error = TRUE, !.loading = FALSE]

\* The model select: setSelectedModel(m).
SetSelectedModel(st, m) == [st EXCEPT !.model = m, !.effects = "loadSave"]

\* clearHistory that empties the thread and leaves the stored item.
ClearHistoryKeepsItem(st) ==
    [st EXCEPT !.messages = << >>, !.effects = "save"]

\* clearHistory: removeItem, setMessages([greeting]).
ClearHistory(st) ==
    [st EXCEPT !.storage[st.model] = Absent, !.messages = Greeting, !.effects = "save"]

\* State after the first render, before its effects.
ChatFirstRender ==
    /\ chatMounted = TRUE
    /\ selectedModel = "llama3-70b-8192"
    /\ messages = << >>
    /\ storage \in [Models -> PersistedThreads]
    /\ chatEffects = "loadSave"
    /\ chatLoading = FALSE
    /\ chatError = FALSE
    /\ chatInFlight = << >>
    /\ sends = 0
    /\ chatEvent = "mount"

\* The pending passive effects run.
ChatRunEffects ==
    /\ chatMounted
    /\ chatEffects # "none"
    /\ SetChatState(RunEffects(ChatState))
    /\ UNCHANGED <<chatMounted, chatInFlight, sends, chatEvent>>
    /\ UNCHANGED <<chartVars, watchVars, newsVars, searchVars, symbolVars, resizeVars, dashVars>>

\* sendMessage up to its await (the input is not blank, isLoading is false);
\* the request carries the selected model.
ChatSend ==
    /\ chatMounted
    /\ chatEffects = "none"
    /\ ~chatLoading
    /\ sends < MaxSends
    /\ sends' = sends + 1
    /\ SetChatState(SendMessage(ChatState))
    /\ chatInFlight' = Append(chatInFlight, selectedModel)
    /\ chatEvent' = "send"
    /\ UNCHANGED chatMounted
    /\ UNCHANGED <<chartVars, watchVars, newsVars, searchVars, symbolVars, resizeVars, dashVars>>

\* The continuation of sendMessage.  React drops the updates of an unmounted
\* component.
ChatSettle(k, ok) ==
    /\ k \in DOMAIN chatInFlight
    /\ chatMounted => chatEffects = "none"
    /\ chatInFlight' = RemoveAt(chatInFlight, k)
    /\ IF chatMounted
       THEN /\ SetChatState(SendMessageSettled(ChatState, ok))
            /\ chatEvent' = IF ok THEN "reply" ELSE "error"
       ELSE UNCHANGED <<selectedModel, messages, storage, chatEffects, chatLoading,
                        chatError, chatEvent>>
    /\ UNCHANGED <<chatMounted, sends>>
    /\ UNCHANGED <<chartVars, watchVars, newsVars, searchVars, symbolVars, resizeVars, dashVars>>

\* The model select's onChange.
ChatSelectModel(m) ==
    /\ chatMounted
    /\ chatEffects = "none"
    /\ m # selectedModel
    /\ SetChatState(SetSelectedModel(ChatState, m))
    /\ chatEvent' = "select"
    /\ UNCHANGED <<chatMounted, chatInFlight, sends>>
    /\ UNCHANGED <<chartVars, watchVars, newsVars, searchVars, symbolVars, resizeVars, dashVars>>

\* The Clear button.
ChatClear ==
    /\ chatMounted
    /\ chatEffects = "none"
    /\ SetChatState(ClearHistory(ChatState))
    /\ chatEvent' = "clear"
    /\ UNCHANGED <<chatMounted, chatInFlight, sends>>
    /\ UNCHANGED <<chartVars, watchVars, newsVars, searchVars, symbolVars, resizeVars, dashVars>>

ChatUnmount ==
    /\ chatMounted
    /\ chatEffects = "none"
    /\ chatMounted' = FALSE
    /\ chatEvent' = "unmount"
    /\ UNCHANGED <<selectedModel, messages, chatLoading, chatError, storage,
                   chatEffects, chatInFlight, sends>>
    /\ UNCHANGED <<chartVars, watchVars, newsVars, searchVars, symbolVars, resizeVars, dashVars>>

NextChat ==
    \/ ChatRunEffects
    \/ ChatSend
    \/ \E k \in DOMAIN chatInFlight, ok \in BOOLEAN : ChatSettle(k, ok)
    \/ \E m \in Models : ChatSelectModel(m)
    \/ ChatClear
    \/ ChatUnmount

(***************************************************************************)
(* The stock search box (Dashboard, and alike in TradingViewChart and      *)
(* Watchlists): the input's onChange calls searchStocks(e.target.value).   *)
(***************************************************************************)
MaxTyped == 4        \* changes of the search input

\* The texts the user types, as sequences of characters.
Queries == {<< >>, << "B" >>, << "B", "H" >>, << "R", "I" >>}

\* searchResults: the empty list, or the hits the backend returned for a query.
NoResults == [hits |-> FALSE, query |-> << >>]
Hits(q) == [hits |-> TRUE, query |-> q]

SearchState ==
    [inFlight |-> searchInFlight, results |-> searchResults, searching |-> isSearching]

SetSearchState(st) ==
    /\ searchResults' = st.results
    /\ isSearching' = st.searching
    /\ searchInFlight' = st.inFlight

\* searchStocks without the minimum length.
SearchStocksNoMinimum(st, query) ==
    [st EXCEPT !.searching = TRUE, !.inFlight = Append(@, query)]

\* searchStocks(query) up to its await.
SearchStocks(st, query) ==
    IF Len(query) < 2
    THEN [st EXCEPT !.results = NoResults]
    ELSE [st EXCEPT !.searching = TRUE, !.inFlight = Append(@, query)]

\* searchStocks after its await: setSearchResults(results), or
\* setSearchResults([]) in the catch; finally setIsSearching(false).
SearchStocksSettled(st, k, outcome) ==
    [st EXCEPT !.results = CASE outcome = "hits" -> Hits(st.inFlight[k])
                             [] OTHER -> NoResults,
               !.searching = FALSE,
               !.inFlight = RemoveAt(st.inFlight, k)]

\* State after the first render: an empty input, nothing requested.
SearchFirstRender ==
    /\ searchQuery = << >>
    /\ searchResults = NoResults
    /\ isSearching = FALSE
    /\ searchInFlight = << >>
    /\ typed = 0

\* The input's onChange: setSearchQuery(value); searchStocks(value).
SearchType(q) ==
    /\ q # searchQuery
    /\ typed < MaxTyped
    /\ typed' = typed + 1
    /\ searchQuery' = q
    /\ SetSearchState(SearchStocks(SearchState, q))
    /\ UNCHANGED <<chartVars, watchVars, newsVars, chatVars, symbolVars, resizeVars, dashVars>>

\* The response of one request arrives.
SearchSettle(k, outcome) ==
    /\ k \in DOMAIN searchInFlight
    /\ SetSearchState(SearchStocksSettled(SearchState, k, outcome))
    /\ UNCHANGED <<searchQuery, typed>>
    /\ UNCHANGED <<chartVars, watchVars, newsVars, chatVars, symbolVars, resizeVars, dashVars>>

NextSearch ==
    \/ \E q \in Queries : SearchType(q)
    \/ \E k \in DOMAIN searchInFlight, o \in {"hits", "noHits", "error"} :
          SearchSettle(k, o)

(***************************************************************************)
(* Symbol dialects.  A symbol is a string, modelled as the sequence of its *)
(* characters; the string operations are those of JavaScript.              *)
(***************************************************************************)
\* s.endsWith(p)
EndsWith(s, p) ==
    Len(s) >= Len(p) /\ SubSeq(s, Len(s) - Len(p) + 1, Len(s)) = p

\* s.indexOf(p), counted from 1; 0 when p does not occur.
IndexOf(s, p) ==
    LET at == {i \in 1..Len(s) :
                  i + Len(p) - 1 <= Len(s) /\ SubSeq(s, i, i + Len(p) - 1) = p}
    IN IF at = {} THEN 0 ELSE CHOOSE i \in at : \A j \in at : i <= j

\* s.replace(p, r) with a string pattern: the first occurrence only.
Replace(s, p, r) ==
    LET i == IndexOf(s, p)
    IN IF i = 0 THEN s
       ELSE SubSeq(s, 1, i - 1) \o r \o SubSeq(s, i + Len(p), Len(s))

AsxPrefix == << "A", "S", "X", ":" >>
AxSuffix == << ".", "A", "X" >>

Tickers == {<< "B", "H", "P" >>, << "R", "I", "O" >>, << "A", "S", "X" >>}

\* The three dialects of a ticker: bare, exchange-prefixed, vendor-suffixed.
Dialects(t) == {t, AsxPrefix \o t, t \o AxSuffix}
SymbolInputs == UNION {Dialects(t) : t \in Tickers}

\* The conversion of selectStockForChart and handleStockSelect.
ToTradingViewSymbol(symbol) ==
    IF EndsWith(symbol, AxSuffix)
    THEN AsxPrefix \o Replace(symbol, AxSuffix, << >>)
    ELSE symbol

\* ASXApiService.convertToYahooSymbol.
ConvertToYahooSymbol(symbol) ==
    LET cleanSymbol == Replace(symbol, AsxPrefix, << >>)
    IN IF EndsWith(cleanSymbol, AxSuffix) THEN cleanSymbol ELSE cleanSymbol \o AxSuffix

\* Symbols that are in none of the three dialects: the empty string, a
\* prefix without a ticker, a suffix without a ticker.
MalformedSymbols == {<< >>, AsxPrefix, AxSuffix}

\* getTradingViewSymbol(symbol): the symbol option of the widget.
GetTradingViewSymbol(symbol) == symbol

\* fetchStockMetrics: cleanSymbol = symbol.replace('ASX:', ''), and the
\* request is made for `${cleanSymbol}.AX`.
MetricsSymbol(symbol) == Replace(symbol, AsxPrefix, << >>) \o AxSuffix

\* fetchNews: selectedStock.replace('ASX:', '').replace('.AX', '').
NewsStockSymbol(symbol) ==
    Replace(Replace(symbol, AsxPrefix, << >>), AxSuffix, << >>)

\* The propSelectedStock effect of the chart: the selectedStock it leaves.
PropSync(propSelectedStock, selected) ==
    IF propSelectedStock # << >> /\ propSelectedStock # selected
    THEN propSelectedStock
    ELSE selected

\* The Dashboard shows ASX:BHP: the chart, its metrics and the news were
\* requested for it; getStockData has not been called.
SymbolsFirstRender ==
    /\ dashSelectedStock = AsxPrefix \o << "B", "H", "P" >>
    /\ yahooSymbol = << >>
    /\ chartSelectedSymbol = dashSelectedStock
    /\ widgetSymbol = GetTradingViewSymbol(chartSelectedSymbol)
    /\ asxSymbol = MetricsSymbol(chartSelectedSymbol)
    /\ stockSymbol = NewsStockSymbol(dashSelectedStock)

\* A symbol reaches the Dashboard (a search hit, a watchlist item).
SymbolArrives(s) ==
    /\ s # symbolInput
    /\ symbolInput' = s
    /\ UNCHANGED <<dashSelectedStock, yahooSymbol, chartSelectedSymbol, widgetSymbol,
                   asxSymbol, stockSymbol>>
    /\ UNCHANGED <<chartVars, watchVars, newsVars, chatVars, searchVars, resizeVars, dashVars>>

\* The consumers of the Dashboard's selectedStock after a render in which the
\* chart holds `selected` and the Dashboard hands down `prop`: the chart's
\* prop effect, its create and metrics effects (they run again when the prop
\* effect changed the selection), and the effect of News.
Consumers(prop, selected) ==
    LET synced == PropSync(prop, selected) IN
    /\ chartSelectedSymbol' = synced
    /\ IF selected # chartSelectedSymbol \/ synced # selected
       THEN /\ widgetSymbol' = GetTradingViewSymbol(synced)
            /\ asxSymbol' = IF synced # << >> THEN MetricsSymbol(synced) ELSE asxSymbol
       ELSE UNCHANGED <<widgetSymbol, asxSymbol>>
    /\ stockSymbol' = IF prop # << >> /\ prop # dashSelectedStock
                      THEN NewsStockSymbol(prop)
                      ELSE stockSymbol

\* selectStockForChart(symbol), from a watchlist item or a Dashboard search
\* hit: the selection, the search box is reset, and the consumers follow.
SelectStockForChart ==
    /\ dashSelectedStock' = ToTradingViewSymbol(symbolInput)
    /\ searchQuery' = << >>
    /\ searchResults' = NoResults
    /\ Consumers(dashSelectedStock', chartSelectedSymbol)
    /\ UNCHANGED <<isSearching, searchInFlight, typed>>
    /\ UNCHANGED <<symbolInput, yahooSymbol>>
    /\ UNCHANGED <<chartVars, watchVars, newsVars, chatVars, resizeVars, dashVars>>

\* handleStockSelect(symbol), from a search hit of the chart: the chart's own
\* selection, then onStockSelect, which is selectStockForChart.
HandleStockSelect ==
    LET tradingViewSymbol == ToTradingViewSymbol(symbolInput) IN
    /\ dashSelectedStock' = ToTradingViewSymbol(tradingViewSymbol)
    /\ searchQuery' = << >>
    /\ searchResults' = NoResults
    /\ Consumers(dashSelectedStock', tradingViewSymbol)
    /\ UNCHANGED <<isSearching, searchInFlight, typed>>
    /\ UNCHANGED <<symbolInput, yahooSymbol>>
    /\ UNCHANGED <<chartVars, watchVars, newsVars, chatVars, resizeVars, dashVars>>

\* getStockData(symbol) up to its fetch: the symbol of the request URL.
QuoteRequest ==
    /\ yahooSymbol' = ConvertToYahooSymbol(symbolInput)
    /\ UNCHANGED <<symbolInput, dashSelectedStock, chartSelectedSymbol, widgetSymbol,
                   asxSymbol, stockSymbol>>
    /\ UNCHANGED <<chartVars, watchVars, newsVars, chatVars, searchVars, resizeVars, dashVars>>

NextSymbols ==
    \/ \E s \in SymbolInputs \cup MalformedSymbols : SymbolArrives(s)
    \/ SelectStockForChart
    \/ HandleStockSelect
    \/ QuoteRequest

(***************************************************************************)
(* Resizable panes (Dashboard.tsx useResizable).  The Dashboard holds two  *)
(* instances of the hook: the stocks panel (horizontal split) and the      *)
(* chart above the news (vertical split).  Lengths are in pixels, sizes in *)
(* percent; the rectangles and pointer positions are chosen so that every  *)
(* quotient is a whole number.                                             *)
(***************************************************************************)
Panes == {"horizontal", "vertical"}

\* useResizable(30, 20, 50, containerRef, false) and
\* useResizable(70, 40, 80, chartNewsRef, true).
IsVertical(p) == p = "vertical"
InitialSize(p) == IF IsVertical(p) THEN 70 ELSE 30
MinSize(p) == IF IsVertical(p) THEN 40 ELSE 20
MaxSize(p) == IF IsVertical(p) THEN 80 ELSE 50

\* getBoundingClientRect() along the axis of the split: left and width, or
\* top and height.  The extent is positive.
ContainerRects == {[origin |-> 0, extent |-> 10], [origin |-> 2, extent |-> 10]}

\* clientX / clientY of a mouse event; some lie outside every container.
Positions == {-1, 2, 4, 5, 7, 10, 13}

Max(a, b) == IF a >= b THEN a ELSE b
Min(a, b) == IF a <= b THEN a ELSE b

\* Math.max(minSize, newSize): the upper bound is not applied.
ClampedSizeNoMax(p, rect, at) ==
    Max(MinSize(p), ((at - rect.origin) * 100) \div rect.extent)

\* resize: newSize = ((client - origin) / extent) * 100, then
\* Math.max(minSize, Math.min(maxSize, newSize)).
ClampedSize(p, rect, at) ==
    LET newSize == ((at - rect.origin) * 100) \div rect.extent
    IN Max(MinSize(p), Min(MaxSize(p), newSize))

\* The coordinate a split reads from a mouse event.
Client(p, at) == IF IsVertical(p) THEN at.y ELSE at.x

\* A document listener: the pane whose hook added it, the event, and the
\* isResizing its callback closed over.
Listener(p, type, captured) == <<p, type, captured>>

\* The listeners the hook can add, and the document with none of them; the
\* document maps each to whether it is registered.
AllListeners == Panes \X {"mousemove", "mouseup"} \X BOOLEAN
NoListeners == [l \in AllListeners |-> FALSE]

\* The part of the document the hook writes.
Doc(ls, cursor, userSelect) == [listeners |-> ls, cursor |-> cursor, userSelect |-> userSelect]

\* A cleanup that leaves the listeners and the body styles as they are.
EffectCleanupNone(doc, p, captured) == doc

\* A cleanup that removes the listeners and leaves the body styles.
EffectCleanupKeepsStyle(doc, p, captured) ==
    [doc EXCEPT !.listeners = [@ EXCEPT ![Listener(p, "mousemove", captured)] = FALSE,
                                        ![Listener(p, "mouseup", captured)] = FALSE]]

\* The cleanup of the listener effect: removeEventListener for the callbacks
\* of its own render, and the body styles are reset.
EffectCleanup(doc, p, captured) ==
    Doc([doc.listeners EXCEPT ![Listener(p, "mousemove", captured)] = FALSE,
                              ![Listener(p, "mouseup", captured)] = FALSE], "", "")

\* The body of the listener effect for a render with the given isResizing.
EffectBody(doc, p, resizing) ==
    IF resizing
    THEN Doc([doc.listeners EXCEPT ![Listener(p, "mousemove", resizing)] = TRUE,
                                   ![Listener(p, "mouseup", resizing)] = TRUE],
             IF IsVertical(p) THEN "row-resize" ELSE "col-resize", "none")
    ELSE Doc([doc.listeners EXCEPT ![Listener(p, "mousemove", resizing)] = FALSE,
                                   ![Listener(p, "mouseup", resizing)] = FALSE], "", "")

\* The listener effects after a render that changed isResizing from `before`
\* to `after`: React runs the cleanups of the changed effects, then their
\* bodies, each in the order of the hooks.
RunListenerEffects(doc, before, after) ==
    LET changed(p) == before[p] # after[p]
        c1 == IF changed("horizontal")
              THEN EffectCleanup(doc, "horizontal", before["horizontal"]) ELSE doc
        c2 == IF changed("vertical")
              THEN EffectCleanup(c1, "vertical", before["vertical"]) ELSE c1
        b1 == IF changed("horizontal")
              THEN EffectBody(c2, "horizontal", after["horizontal"]) ELSE c2
        b2 == IF changed("vertical")
              THEN EffectBody(b1, "vertical", after["vertical"]) ELSE b1
    IN b2

SetDoc(doc) ==
    /\ listeners' = doc.listeners
    /\ bodyCursor' = doc.cursor
    /\ bodyUserSelect' = doc.userSelect

\* A startResizing that raises the flag of every split.
StartResizingShared(flags, p) == [q \in Panes |-> TRUE]

\* startResizing: setIsResizing(true) of its own instance.
StartResizing(flags, p) == [flags EXCEPT ![p] = TRUE]

\* State after the first render of the Dashboard and its effects.
ResizeFirstRender ==
    /\ layoutMounted = TRUE
    /\ size = [p \in Panes |-> InitialSize(p)]
    /\ isResizing = [p \in Panes |-> FALSE]
    /\ listeners = NoListeners
    /\ bodyCursor = ""
    /\ bodyUserSelect = ""
    /\ containerRect \in [Panes -> ContainerRects]
    /\ pointer = [y |-> 5, x |-> 5]
    /\ domEvent = "none"
    /\ eventTarget = "none"

\* onMouseDown of a divider: e.preventDefault(); startResizing.
MouseDown(p) ==
    /\ layoutMounted
    /\ isResizing' = StartResizing(isResizing, p)
    /\ SetDoc(RunListenerEffects(Doc(listeners, bodyCursor, bodyUserSelect),
                                 isResizing, isResizing'))
    /\ domEvent' = "mousedown"
    /\ eventTarget' = p
    /\ UNCHANGED <<layoutMounted, size, containerRect, pointer>>
    /\ UNCHANGED <<chartVars, watchVars, newsVars, chatVars, searchVars, symbolVars, dashVars>>

\* A mousemove reaches the document: every resize registered for it runs with
\* the isResizing of its closure, and sets the size of its own instance.
MouseMove(at) ==
    /\ at # pointer
    /\ pointer' = at
    /\ size' = [p \in Panes |->
                  IF listeners[Listener(p, "mousemove", TRUE)] /\ layoutMounted
                  THEN ClampedSize(p, containerRect[p], Client(p, at))
                  ELSE size[p]]
    /\ domEvent' = "mousemove"
    /\ eventTarget' = "document"
    /\ UNCHANGED <<layoutMounted, isResizing, listeners, bodyCursor, bodyUserSelect,
                   containerRect>>
    /\ UNCHANGED <<chartVars, watchVars, newsVars, chatVars, searchVars, symbolVars, dashVars>>

\* A mouseup reaches the document, wherever the button is released: every
\* stopResizing registered for it runs, then the listener effects.
MouseUp ==
    /\ domEvent # "mouseup"
    /\ isResizing' = [p \in Panes |->
                        IF (\E c \in BOOLEAN : listeners[Listener(p, "mouseup", c)])
                           /\ layoutMounted
                        THEN FALSE
                        ELSE isResizing[p]]
    /\ SetDoc(RunListenerEffects(Doc(listeners, bodyCursor, bodyUserSelect),
                                 isResizing, isResizing'))
    /\ domEvent' = "mouseup"
    /\ eventTarget' = "document"
    /\ UNCHANGED <<layoutMounted, size, containerRect, pointer>>
    /\ UNCHANGED <<chartVars, watchVars, newsVars, chatVars, searchVars, symbolVars, dashVars>>

\* The Dashboard unmounts: the cleanup of each instance's listener effect.
DashboardUnmount ==
    /\ layoutMounted
    /\ layoutMounted' = FALSE
    /\ SetDoc(EffectCleanup(EffectCleanup(Doc(listeners, bodyCursor, bodyUserSelect),
                                          "horizontal", isResizing["horizontal"]),
                            "vertical", isResizing["vertical"]))
    /\ domEvent' = "unmount"
    /\ eventTarget' = "none"
    /\ UNCHANGED <<size, isResizing, containerRect, pointer>>
    /\ UNCHANGED <<chartVars, watchVars, newsVars, chatVars, searchVars, symbolVars, dashVars>>

NextResize ==
    \/ \E p \in Panes : MouseDown(p)
    \/ \E x \in Positions, y \in Positions : MouseMove([y |-> y, x |-> x])
    \/ MouseUp
    \/ DashboardUnmount

(***************************************************************************)
(* Dashboard: loadWatchlistStocks, the loading return and the chart it     *)
(* mounts.  While loading is true the Dashboard renders the spinner only,  *)
(* so the TradingViewChart is unmounted when a load starts and a new       *)
(* instance is mounted when it has settled.  selectedStock is state of the *)
(* Dashboard and is handed to the new instance as its prop.                *)
(***************************************************************************)
\* A Refresh button that is rendered in the loading state as well.
RefreshAlwaysAvailable(mounted, loading) == mounted

\* The header with the Refresh button is rendered unless loading.
RefreshAvailable(mounted, loading) == mounted /\ ~loading

\* A TradingViewChart instance mounts: its first render and effects.  The
\* mount effect appends a new tv.js script element; the metrics of the
\* selected instrument are requested.  Requests of an earlier instance end in
\* updates React drops, so they are no longer tracked.
ChartMount ==
    /\ chartMounted' = TRUE
    /\ scriptState' = "pending"
    /\ scriptLoads' = scriptLoads + 1
    /\ isLoading' = TRUE
    /\ chartError' = "none"
    /\ firstRenderStock' = selectedStock
    /\ refreshKey' = 0
    /\ widgetRef' = NoWidget
    /\ stockMetrics' = "null"
    /\ metricsLoading' = TRUE
    /\ metricsInFlight' = [s \in Stocks |-> IF s = selectedStock THEN 1 ELSE 0]
    /\ chartEvent' = "mount"
    /\ UNCHANGED <<selectedStock, widgets, ctorCalls>>

\* The TradingViewChart instance, if there is one, unmounts: the cleanup of
\* its mount effect calls removeWidget().
ChartCleanup ==
    IF chartMounted
    THEN /\ chartMounted' = FALSE
         /\ chartEvent' = "unmount"
         /\ \E rm \in BOOLEAN : SetChartState(RemoveWidget(ChartState, rm, "unmount"))
         /\ UNCHANGED <<scriptState, isLoading, selectedStock, refreshKey, stockMetrics,
                        metricsLoading, metricsInFlight, firstRenderStock>>
    ELSE UNCHANGED chartVars

\* State after the Dashboard's first render and its mount effect:
\* loadWatchlistStocks is awaiting the store, the spinner is shown.
DashFirstRender ==
    /\ dashMounted = TRUE
    /\ dashLoading = TRUE
    /\ dashLoads = 1
    /\ dashRefreshes = 0
    /\ scriptLoads = 0

\* loadWatchlistStocks after its await, on either path of the try/catch:
\* finally setLoading(false); the main layout is rendered and the chart
\* mounts.
DashLoadSettle ==
    /\ dashLoads > 0
    /\ dashLoads' = dashLoads - 1
    /\ IF dashMounted
       THEN /\ dashLoading' = FALSE
            /\ IF dashLoading
               THEN ChartMount
               ELSE UNCHANGED <<chartVars, scriptLoads>>
       ELSE UNCHANGED <<chartVars, dashLoading, scriptLoads>>
    /\ UNCHANGED <<dashMounted, dashRefreshes>>
    /\ UNCHANGED <<watchVars, newsVars, chatVars, searchVars, symbolVars, resizeVars>>

\* The Dashboard's Refresh button: loadWatchlistStocks up to its await.
\* setLoading(true) replaces the layout by the spinner: the chart unmounts.
DashRefreshClick ==
    /\ RefreshAvailable(dashMounted, dashLoading)
    /\ dashRefreshes < MaxDashRefresh
    /\ dashRefreshes' = dashRefreshes + 1
    /\ dashLoading' = TRUE
    /\ dashLoads' = dashLoads + 1
    /\ ChartCleanup
    /\ UNCHANGED <<dashMounted, scriptLoads>>
    /\ UNCHANGED <<watchVars, newsVars, chatVars, searchVars, symbolVars, resizeVars>>

\* The router leaves the Dashboard page.
DashUnmount ==
    /\ dashMounted
    /\ dashMounted' = FALSE
    /\ ChartCleanup
    /\ UNCHANGED <<dashLoading, dashLoads, dashRefreshes, scriptLoads>>
    /\ UNCHANGED <<watchVars, newsVars, chatVars, searchVars, symbolVars, resizeVars>>

NextDashboard ==
    \/ DashLoadSettle
    \/ DashRefreshClick
    \/ DashUnmount
    \/ ScriptOnLoad
    \/ ScriptOnError
    \/ \E s \in Stocks : SelectStock(s)
    \/ RefreshClick
    \/ RetryClick
    \/ \E s \in Stocks, o \in MetricsOutcomes : MetricsSettle(s, o)

(***************************************************************************)
(* Specifications.  The router shows one page at a time; a view that is    *)
(* not shown has no instance: nothing mounted, nothing in flight.          *)
(***************************************************************************)
ChartAbsent ==
    /\ chartMounted = FALSE
    /\ scriptState = "none"
    /\ isLoading = TRUE
    /\ chartError = "none"
    /\ selectedStock = "ASX:BHP"
    /\ firstRenderStock = "ASX:BHP"
    /\ refreshKey = 0
    /\ widgetRef = NoWidget
    /\ widgets = << >>
    /\ ctorCalls = 0
    /\ stockMetrics = "null"
    /\ metricsLoading = FALSE
    /\ metricsInFlight = [s \in Stocks |-> 0]
    /\ chartEvent = "none"

WatchAbsent ==
    /\ wlMounted = FALSE
    /\ wlLoading = TRUE
    /\ watchlists = << >>
    /\ wlTimers = << >>
    /\ intervalGen = 0
    /\ cycles = << >>
    /\ wlOps = << >>
    /\ loadInFlight = FALSE
    /\ nextWlId = 2
    /\ nextItemId = 3
    /\ ticks = 0
    /\ edits = 0

NewsAbsent ==
    /\ newsMounted = FALSE
    /\ newsOpen = TRUE
    /\ newsStock = "ASX:BHP"
    /\ news = "none"
    /\ newsLoading = FALSE
    /\ newsError = FALSE
    /\ newsInFlight = [s \in Stocks |-> 0]

ChatAbsent ==
    /\ chatMounted = FALSE
    /\ selectedModel = "llama3-70b-8192"
    /\ messages = << >>
    /\ chatLoading = FALSE
    /\ chatError = FALSE
    /\ storage = [m \in Models |-> Absent]
    /\ chatInFlight = << >>
    /\ chatEffects = "none"
    /\ sends = 0
    /\ chatEvent = "none"

ResizeAbsent ==
    /\ layoutMounted = FALSE
    /\ size = [p \in Panes |-> InitialSize(p)]
    /\ isResizing = [p \in Panes |-> FALSE]
    /\ listeners = NoListeners
    /\ bodyCursor = ""
    /\ bodyUserSelect = ""
    /\ containerRect = [p \in Panes |-> [origin |-> 0, extent |-> 10]]
    /\ pointer = [y |-> 5, x |-> 5]
    /\ domEvent = "none"
    /\ eventTarget = "none"

DashAbsent ==
    /\ dashMounted = FALSE
    /\ dashLoading = TRUE
    /\ dashLoads = 0
    /\ dashRefreshes = 0
    /\ scriptLoads = 0

InitChart ==
    ChartFirstRender /\ WatchAbsent /\ NewsAbsent /\ ChatAbsent /\ SearchFirstRender
      /\ SymbolsFirstRender /\ symbolInput = << >> /\ ResizeAbsent /\ DashAbsent
InitWatch ==
    ChartAbsent /\ WatchFirstRender /\ NewsAbsent /\ ChatAbsent /\ SearchFirstRender
      /\ SymbolsFirstRender /\ symbolInput = << >> /\ ResizeAbsent /\ DashAbsent
InitNews ==
    ChartAbsent /\ WatchAbsent /\ NewsFirstRender /\ ChatAbsent /\ SearchFirstRender
      /\ SymbolsFirstRender /\ symbolInput = << >> /\ ResizeAbsent /\ DashAbsent
InitChat ==
    ChartAbsent /\ WatchAbsent /\ NewsAbsent /\ ChatFirstRender /\ SearchFirstRender
      /\ SymbolsFirstRender /\ symbolInput = << >> /\ ResizeAbsent /\ DashAbsent
InitSearch ==
    ChartAbsent /\ WatchAbsent /\ NewsAbsent /\ ChatAbsent /\ SearchFirstRender
      /\ SymbolsFirstRender /\ symbolInput = << >> /\ ResizeAbsent /\ DashAbsent

\* The chart view alone.
SpecChart == InitChart /\ [][NextChart]_vars

\* The Watchlists view alone.
SpecWatch == InitWatch /\ [][NextWatch]_vars

\* The Watchlists view over an unbounded time.  Every response arrives in the
\* end, and an interval that stays set fires (30 s after it was set); the
\* user's edits are under no obligation.  An interval that is cleared and
\* replaced by a new one is another interval: the fairness is per interval.
SpecWatchLive ==
    /\ InitWatch
    /\ [][NextWatchLive]_vars
    /\ WF_vars(LiveResponse)
    /\ WF_vars(LiveIntervalFires(0))
    /\ WF_vars(LiveIntervalFires(1))

\* The Chatbox alone.
SpecChat == InitChat /\ [][NextChat]_vars

\* The search box alone.
SpecSearch == InitSearch /\ [][NextSearch]_vars

\* The symbol conversions applied to every dialect of every ticker.
InitSymbols ==
    /\ ChartAbsent /\ WatchAbsent /\ NewsAbsent /\ ChatAbsent /\ SearchFirstRender
    /\ SymbolsFirstRender /\ symbolInput \in SymbolInputs /\ ResizeAbsent /\ DashAbsent
SpecSymbols == InitSymbols /\ [][NextSymbols]_vars

\* The two resizable splits of the Dashboard.
InitResize ==
    /\ ChartAbsent /\ WatchAbsent /\ NewsAbsent /\ ChatAbsent /\ SearchFirstRender
    /\ SymbolsFirstRender /\ symbolInput = << >> /\ ResizeFirstRender /\ DashAbsent
SpecResize == InitResize /\ [][NextResize]_vars

\* The Dashboard with the chart it mounts.
InitDashboard ==
    /\ ChartAbsent /\ WatchAbsent /\ NewsAbsent /\ ChatAbsent /\ SearchFirstRender
    /\ SymbolsFirstRender /\ symbolInput = << >> /\ ResizeAbsent /\ DashFirstRender
SpecDashboard == InitDashboard /\ [][NextDashboard]_vars

\* Any one of the four views.
InitViews == InitChart \/ InitWatch \/ InitNews \/ InitChat
NextViews == NextChart \/ NextWatch \/ NextNews \/ NextChat
SpecViews == InitViews /\ [][NextViews]_vars

(***************************************************************************)
(* Claims about the widget lifecycle (TradingViewChart).                   *)
(***************************************************************************)
LiveWidgets == {i \in DOMAIN widgets : widgets[i].teardowns = 0}

\* C1: creations and teardowns strictly alternate: whenever a widget has been
\* constructed, every widget constructed before it has had exactly one call
\* of its remove method, and no widget ever has more than one.
C1_CreateTeardownAlternate ==
    \A i \in DOMAIN widgets :
        /\ widgets[i].teardowns <= 1
        /\ i < Len(widgets) => widgets[i].teardowns = 1

\* A third widget is live after two create/teardown rounds.
C1_Witness ==
    /\ Len(widgets) = 3
    /\ widgetRef = 3
    /\ widgets[1].teardowns = 1
    /\ widgets[2].teardowns = 1
    /\ widgets[3].teardowns = 0

\* C2: at most one widget is live (constructed, remove not yet called), and
\* a live widget is the one widgetRef holds.
C2_AtMostOneLiveHandle ==
    /\ Cardinality(LiveWidgets) <= 1
    /\ \A i \in LiveWidgets : widgetRef = i

\* After a Refresh click one widget is live; an earlier widget's remove threw.
C2_Witness ==
    /\ Len(widgets) >= 2
    /\ Cardinality(LiveWidgets) = 1
    /\ \E i \in DOMAIN widgets : widgets[i].threw
    /\ chartEvent = "refresh"

\* C3: a throwing remove is swallowed: in the step in which it throws the
\* handle reference is cleared, the handle is never referenced or removed
\* again, and when createWidget made the call the constructor is still called.
C3_TeardownFailureSwallowed ==
    [][\A i \in DOMAIN widgets' :
          widgets'[i].threw =>
             /\ widgetRef' # i
             /\ widgets'[i].teardowns = 1
             /\ (i \in DOMAIN widgets /\ ~widgets[i].threw /\ widgets'[i].by = "create")
                   => ctorCalls' > ctorCalls]_vars

\* The remove of widget i threw inside createWidget and widget i+1 is live.
C3_Witness ==
    \E i \in DOMAIN widgets :
        /\ widgets[i].threw
        /\ widgets[i].by = "create"
        /\ widgetRef = i + 1

\* C4: clicking Retry in the Chart Error view re-attempts: afterwards the
\* chart is loading again or the widget constructor has been called.
C4_RetryReattempts ==
    [][(chartEvent' = "retry" /\ chartError # "none")
         => (isLoading' \/ scriptState' = "pending" \/ ctorCalls' > ctorCalls)]_vars

\* C5: after the unmount no handle is held and every widget ever constructed
\* has had its remove method called exactly once.
C5_UnmountTearsDownOnce ==
    ~chartMounted =>
        /\ widgetRef = NoWidget
        /\ \A i \in DOMAIN widgets : widgets[i].teardowns = 1

\* The unmount removed the live widget and its remove threw.
C5_Witness ==
    /\ ~chartMounted
    /\ \E i \in DOMAIN widgets : widgets[i].by = "unmount" /\ widgets[i].threw

Shape(wls) ==
    [w \in DOMAIN wls |->
        [id |-> wls[w].id,
         items |-> [i \in DOMAIN wls[w].items |-> wls[w].items[i].id]]]

\* A cycle settles in this step of the mounted view.
CycleSettles == wlMounted /\ Len(cycles') < Len(cycles)

\* C7: two refresh cycles never overlap: at most one fetchRealTimeData call is
\* unsettled at any time.
C7_CyclesNeverOverlap == Len(cycles) <= 1

\* C8: the step in which a cycle settles changes quotes only: the view model
\* keeps the watchlists and the items it had just before.
C8_CycleKeepsEdits ==
    [][CycleSettles => Shape(watchlists') = Shape(watchlists)]_vars

C10_NoWriteAfterUnmount ==
    [][/\ ~chartMounted =>
            UNCHANGED <<isLoading, chartError, selectedStock, refreshKey, widgetRef,
                        widgets, ctorCalls, stockMetrics, metricsLoading>>
       /\ ~wlMounted => UNCHANGED <<wlLoading, watchlists, wlTimers, intervalGen>>
       /\ ~newsMounted => UNCHANGED <<newsOpen, newsStock, news, newsLoading, newsError>>
       /\ ~chatMounted =>
            UNCHANGED <<selectedModel, messages, chatLoading, chatError, storage>>]_vars

\* The chart was unmounted while its metrics fetch was pending; every fetch
\* has since resolved and the metrics state is as the unmount left it.
C10_Witness ==
    /\ ~chartMounted
    /\ scriptState # "none"
    /\ \A s \in Stocks : metricsInFlight[s] = 0
    /\ metricsLoading
    /\ stockMetrics = "null"
(***************************************************************************)
(* Claims about the fetches of the selected instrument.                    *)
(***************************************************************************)
\* C11: for any single instrument at most one quote fetch of the chart's
\* metrics is in flight at a time.
C11_OneFetchPerInstrument ==
    \A s \in Stocks : metricsInFlight[s] <= 1

\* C12: once every fetch has settled, the metrics the chart shows and the
\* news the News panel shows are those of the selected instrument.
C12_ResultsBelongToSelection ==
    /\ (chartMounted /\ (\A s \in Stocks : metricsInFlight[s] = 0)
          /\ stockMetrics # "null") => stockMetrics = selectedStock
    /\ (newsMounted /\ (\A s \in Stocks : newsInFlight[s] = 0)
          /\ news # "none") => news = newsStock

(***************************************************************************)
(* Claims about the search box.                                            *)
(***************************************************************************)
\* C13: last query wins: once every request has settled, the hits shown under
\* a query of at least 2 characters are those of that query.
C13_LastQueryWins ==
    (searchInFlight = << >> /\ Len(searchQuery) >= 2 /\ searchResults.hits)
        => searchResults.query = searchQuery

\* C14: an input change to a text shorter than 2 characters clears the
\* results in the same step and sends no request.
C14_ShortQueryClears ==
    [][(typed' > typed /\ Len(searchQuery') < 2)
         => (searchResults' = NoResults /\ searchInFlight' = searchInFlight)]_vars

\* The request for "BH" is pending, the text was shortened to "B": the
\* results are empty and no second request was sent.
C14_Witness ==
    /\ typed = 2
    /\ searchQuery = << "B" >>
    /\ searchResults = NoResults
    /\ searchInFlight = << << "B", "H" >> >>

(***************************************************************************)
(* Claims about the Chatbox threads.                                       *)
(***************************************************************************)
\* C15: no step changes the thread persisted under a model that is not the
\* selected one, and the effects that run after a model switch change no
\* persisted thread at all.
C15_ThreadIsolation ==
    [][chatMounted =>
         /\ \A m \in Models \ {selectedModel} :
               LoadThread(storage', m) = LoadThread(storage, m)
         /\ (chatEvent = "select" /\ chatEffects = "loadSave") =>
               \A m \in Models : LoadThread(storage', m) = LoadThread(storage, m)]_vars

\* C16: a handler or continuation that changes the thread leaves the changed
\* thread persisted under the selected model.
C16_MutationPersisted ==
    [][(chatMounted /\ chatEffects = "none" /\ messages' # messages)
         => storage'[selectedModel'] = Saved(messages')]_vars

\* A model switch with the effects and re-renders it brings about.
SwitchTo(st, m) == RunEffects(RunEffects(SetSelectedModel(st, m)))

\* C17: from a state whose effects have run, switching to another model shows
\* that model's thread, and switching back shows the thread shown before,
\* with the other model's thread as it was.
C17_SwitchRoundTrip ==
    (chatMounted /\ chatEffects = "none") =>
        \A b \in Models \ {selectedModel} :
            LET there == SwitchTo(ChatState, b)
                back == SwitchTo(there, selectedModel)
            IN /\ there.messages = LoadThread(storage, b)
               /\ back.model = selectedModel
               /\ back.messages = messages
               /\ back.effects = "none"
               /\ LoadThread(back.storage, selectedModel) = messages
               /\ LoadThread(back.storage, b) = LoadThread(storage, b)

\* The first model is selected again after a switch away and back, nothing
\* was sent: its stored thread of three messages is shown and the other
\* model's stored empty thread is as it was.
C17_Witness ==
    /\ chatMounted
    /\ chatEvent = "select"
    /\ chatEffects = "none"
    /\ sends = 0
    /\ selectedModel = "llama3-70b-8192"
    /\ messages = << "greeting", "user", "ai" >>
    /\ storage["deepseek-r1-distill-llama-70b"] = Saved(<< >>)

\* C18: after clearHistory the thread in memory is the one greeting, and so
\* is the persisted thread once the save effect has run (until then the item
\* is removed).
C18_ClearSeedsGreeting ==
    (chatMounted /\ chatEvent = "clear") =>
        /\ messages = Greeting
        /\ storage[selectedModel] =
              IF chatEffects = "none" THEN Saved(Greeting) ELSE Absent

\* A thread with a sent message was cleared and the greeting is persisted.
C18_Witness ==
    /\ chatMounted
    /\ chatEvent = "clear"
    /\ chatEffects = "none"
    /\ sends >= 1
    /\ messages = Greeting
    /\ storage[selectedModel] = Saved(Greeting)

\* C19: a failed chat request sets the error, resets the loading flag and
\* leaves the thread and the persisted threads as they are; when nothing else
\* was done since the send, the user's message is the last of the thread and
\* is persisted.
C19_FailureKeepsMessage ==
    [][(chatMounted /\ chatEvent' = "error" /\ Len(chatInFlight') < Len(chatInFlight))
         => /\ chatError' /\ ~chatLoading'
            /\ messages' = messages
            /\ storage' = storage
            /\ chatEvent = "send" =>
                  /\ messages'[Len(messages')] = "user"
                  /\ storage'[selectedModel'] = Saved(messages')]_vars

\* The request failed: the error is shown, the user's message is the last of
\* the thread and of the persisted thread, and sendMessage is possible again.
C19_Witness ==
    /\ chatMounted
    /\ chatEvent = "error"
    /\ chatError
    /\ ~chatLoading
    /\ Len(messages) >= 2
    /\ messages[Len(messages)] = "user"
    /\ storage[selectedModel] = Saved(messages)

(***************************************************************************)
(* Claims about the symbol dialects.                                       *)
(***************************************************************************)
\* The bare ticker of a symbol in one of the three dialects.
Ticker(symbol) == Replace(Replace(symbol, AsxPrefix, << >>), AxSuffix, << >>)

\* C20: both conversions are idempotent, and every dialect of the instrument
\* a converted symbol names converts to that same symbol.
C20_NormalizeIdempotent ==
    LET tv == ToTradingViewSymbol(symbolInput)
        yh == ConvertToYahooSymbol(symbolInput)
    IN symbolInput \in SymbolInputs =>
       /\ ToTradingViewSymbol(tv) = tv
       /\ ConvertToYahooSymbol(yh) = yh
       /\ \A d \in Dialects(Ticker(tv)) : ToTradingViewSymbol(d) = tv
       /\ \A d \in Dialects(Ticker(yh)) : ConvertToYahooSymbol(d) = yh

\* C21: the three dialects of an instrument name the same ticker, and a
\* selection made with any of them leaves the selection the other two
\* dialects would have left.
C21_DialectsSelectSame ==
    [][(SelectStockForChart \/ HandleStockSelect) /\ symbolInput \in SymbolInputs
         => (\A d \in Dialects(NewsStockSymbol(symbolInput)) :
               /\ NewsStockSymbol(d) = NewsStockSymbol(symbolInput)
               /\ ToTradingViewSymbol(d) = dashSelectedStock')]_vars

\* C22: for a symbol in any dialect the metrics request of the chart names
\* the symbol convertToYahooSymbol returns, and the suffix is never doubled.
C22_MetricsSymbolAgrees ==
    symbolInput \in SymbolInputs =>
       /\ MetricsSymbol(symbolInput) = ConvertToYahooSymbol(symbolInput)
       /\ ~EndsWith(MetricsSymbol(symbolInput), AxSuffix \o AxSuffix)

\* C23: while the symbol at hand is empty or malformed no quote request is
\* issued, by getStockData or by the chart's metrics fetch.
C23_MalformedNoRequest ==
    [][(symbolInput \in MalformedSymbols) /\ symbolInput' = symbolInput
         => (yahooSymbol' = yahooSymbol /\ asxSymbol' = asxSymbol)]_vars

\* C24: selecting BHP or RIO in any dialect leaves a widget for the
\* exchange-prefixed symbol and a metrics request for the vendor-suffixed one.
C24_WidgetAndQuoteSymbols ==
    [][(\A t \in {<< "B", "H", "P" >>, << "R", "I", "O" >>} :
          (SelectStockForChart \/ HandleStockSelect) /\ symbolInput \in Dialects(t)
             => widgetSymbol' = AsxPrefix \o t /\ asxSymbol' = t \o AxSuffix)]_vars

(***************************************************************************)
(* Claims about the consumers of the selection.                            *)
(***************************************************************************)
\* C25: a change of the selected instrument causes exactly one construction
\* of a widget, for the new instrument and with the handle held before torn
\* down, exactly one metrics fetch and exactly one news fetch for it.
C25_OneTransitionPerSelection ==
    [][/\ selectedStock' # selectedStock =>
             /\ ctorCalls' = ctorCalls + 1
             /\ widgetRef' # NoWidget => widgets'[widgetRef'].symbol = selectedStock'
             /\ \A i \in DOMAIN widgets : i # widgetRef' => widgets'[i].teardowns = 1
             /\ metricsInFlight' = StartMetrics(metricsInFlight, selectedStock')
       /\ newsStock' # newsStock =>
             newsInFlight' = StartNews(newsInFlight, newsStock')]_vars

(***************************************************************************)
(* Claims about the resizable panes.                                       *)
(***************************************************************************)
\* C26: the size of each pane is within its bounds in every state, and after
\* a mousemove of an active gesture with the pointer at or beyond an edge
\* of the container the size is the bound of that edge.
C26_SizeWithinBounds ==
    \A p \in Panes :
       /\ MinSize(p) <= size[p] /\ size[p] <= MaxSize(p)
       /\ layoutMounted /\ isResizing[p] /\ domEvent = "mousemove" =>
             LET c == Client(p, pointer)
                 r == containerRect[p]
             IN /\ c <= r.origin => size[p] = MinSize(p)
                /\ c >= r.origin + r.extent => size[p] = MaxSize(p)

\* A drag of the stocks divider with the pointer right of the container, and
\* one of the chart divider with the pointer above it.
C26_Witness ==
    /\ isResizing["horizontal"] /\ isResizing["vertical"] /\ domEvent = "mousemove"
    /\ pointer.x > containerRect["horizontal"].origin + containerRect["horizontal"].extent
    /\ pointer.y < containerRect["vertical"].origin
    /\ size["horizontal"] = 50
    /\ size["vertical"] = 40

\* C27: the size of a pane changes only in a mousemove while its own gesture
\* is active; every other step, a release included, leaves it as it was.
C27_ResizeOnlyWhileDragging ==
    [][\A p \in Panes :
          size'[p] # size[p] => isResizing[p] /\ domEvent' = "mousemove"]_vars

\* After a gesture that changed the stocks pane and its release, the pointer
\* has moved to where a drag would give another size; the size has stayed.
C27_Witness ==
    /\ layoutMounted /\ ~isResizing["horizontal"] /\ domEvent = "mousemove"
    /\ size["horizontal"] # InitialSize("horizontal")
    /\ size["horizontal"] # ClampedSize("horizontal", containerRect["horizontal"], pointer.x)

\* C28: a mousedown on one divider leaves the size and the flag of the other
\* split alone, and while a split has no gesture of its own no step changes
\* its size or raises its flag, except a mousedown on its own divider.
C28_SplitsIndependent ==
    [][\A p \in Panes : \A q \in Panes \ {p} :
          /\ domEvent' = "mousedown" /\ eventTarget' = p =>
                size'[q] = size[q] /\ isResizing'[q] = isResizing[q]
          /\ ~isResizing[q] /\ ~(domEvent' = "mousedown" /\ eventTarget' = q) =>
                size'[q] = size[q] /\ ~isResizing'[q]]_vars

\* A gesture on the stocks divider has resized its pane; the chart split has
\* its initial size and no gesture.
C28_Witness ==
    /\ isResizing["horizontal"] /\ ~isResizing["vertical"] /\ domEvent = "mousemove"
    /\ size["horizontal"] # InitialSize("horizontal")
    /\ size["vertical"] = InitialSize("vertical")

\* C29: while a gesture is active the body has the resize cursor of an active
\* gesture's axis, text selection is off and the gesture's two listeners are
\* on the document; with no gesture, or after the unmount, the cursor and
\* the selection are restored and the document has no listener of the hook.
C29_CursorAndListeners ==
    LET active == {p \in Panes : isResizing[p]}
        cursor(p) == IF IsVertical(p) THEN "row-resize" ELSE "col-resize"
    IN IF layoutMounted /\ active # {}
       THEN /\ bodyCursor \in {cursor(p) : p \in active}
            /\ bodyUserSelect = "none"
            /\ \A l \in AllListeners : listeners[l] <=> (l[1] \in active /\ l[3])
       ELSE /\ bodyCursor = ""
            /\ bodyUserSelect = ""
            /\ listeners = NoListeners

\* The button was released with the pointer outside the container after a
\* drag of the chart divider.
C29_Witness ==
    /\ domEvent = "mouseup"
    /\ pointer.y > containerRect["vertical"].origin + containerRect["vertical"].extent
    /\ size["vertical"] # InitialSize("vertical")
    /\ ~isResizing["vertical"]
    /\ bodyCursor = "" /\ bodyUserSelect = "" /\ listeners = NoListeners

(***************************************************************************)
(* Claims about failed fetches.                                            *)
(***************************************************************************)
\* C30: a metrics fetch that fails, by a network error or a non-success
\* status, leaves the metrics the chart view displayed before it.
C30_FailureKeepsData ==
    [][(\A s \in Stocks : \A o \in {"httpError", "networkError"} :
           MetricsSettle(s, o) => stockMetrics' = stockMetrics)]_vars

\* C33: a mounted Watchlists view has at most one refresh interval set, an
\* unmounted one has none, and an interval that is set closes over the
\* watchlists of the render that set it (the previous one was cleared).
C33_OneTimerPerView ==
    /\ Len(wlTimers) <= 1
    /\ ~wlMounted => wlTimers = << >>
    /\ \A t \in DOMAIN wlTimers : wlTimers[t] = watchlists

\* The effect has re-run after the load and after a completed cycle.
C33_Witness ==
    /\ wlMounted
    /\ ticks > 0
    /\ watchlists # << >>
    /\ Len(wlTimers) = 1
    /\ \A k \in DOMAIN cycles : AllSettled(cycles[k])

\* C34: the loading indicator is shown exactly while the request of the
\* latest query of at least two characters is outstanding: it is not shown
\* for a query below two characters, and it is shown while the latest
\* request is pending.  Up to two changes of the input no text was typed
\* twice, so a pending request carrying the current text is the latest one.
C34_LoadingTracksLatest ==
    /\ isSearching =>
          /\ Len(searchQuery) >= 2
          /\ \E k \in DOMAIN searchInFlight : searchInFlight[k] = searchQuery
    /\ ( /\ typed <= 2
         /\ Len(searchQuery) >= 2
         /\ \E k \in DOMAIN searchInFlight : searchInFlight[k] = searchQuery )
       => isSearching

\* C35: a reply is appended to the thread of the model under which its
\* request was sent: the step that appends it happens with that model
\* selected.
C35_ReplyToOwnThread ==
    [][(chatMounted /\ chatEvent' = "reply" /\ Len(chatInFlight) = 1
          /\ chatInFlight' = << >>)
         => /\ chatInFlight[1] = selectedModel
            /\ messages' = Append(messages, "ai")]_vars

\* C36: while the effects of the mount run, the thread persisted under the
\* selected model stays present and is not shortened.
C36_MountKeepsPersisted ==
    [][(chatMounted /\ chatEvent = "mount" /\ chatEffects # "none"
          /\ chatMounted' /\ storage[selectedModel].present)
         => /\ storage'[selectedModel].present
            /\ Len(storage'[selectedModel].thread) >= Len(storage[selectedModel].thread)]_vars

\* C37: at most one chat request is in flight, and while the Chatbox is
\* mounted isLoading is true exactly while a request is in flight, so
\* sendMessage returns at its guard until the request has settled.
C37_OneRequestInFlight ==
    /\ Len(chatInFlight) <= 1
    /\ chatMounted => (chatLoading <=> chatInFlight # << >>)

\* A second message was sent after the first request had settled, and its
\* request is in flight.
C37_Witness ==
    /\ chatMounted
    /\ sends = 2
    /\ chatLoading
    /\ Len(chatInFlight) = 1

\* C40: no watchlist of the view holds two items with the same symbol, and no
\* two addStockToWatchlist calls for the same watchlist and symbol are under
\* way at once: a second click on the same search result starts nothing.
C40_NoDuplicateAdd ==
    /\ \A w \in DOMAIN watchlists :
          \A i, j \in DOMAIN watchlists[w].items :
             watchlists[w].items[i].symbol = watchlists[w].items[j].symbol => i = j
    /\ \A j, k \in DOMAIN wlOps :
          ( /\ wlOps[j].kind = "addStockToWatchlist"
            /\ wlOps[k].kind = "addStockToWatchlist"
            /\ wlOps[j].wid = wlOps[k].wid
            /\ wlOps[j].arg = wlOps[k].arg ) => j = k

(***************************************************************************)
(* Claims about the Dashboard's load and refresh.                          *)
(***************************************************************************)
\* C31: whatever the sequence of mounts and unmounts of the chart, at most
\* one load of the external library script is issued.
C31_ScriptLoadedOnce == scriptLoads <= 1

\* C38: at most one loadWatchlistStocks call is in flight, and while one is
\* pending on the mounted Dashboard the loading flag is true and the Refresh
\* button is not rendered.
C38_OneLoadInFlight ==
    /\ dashLoads <= 1
    /\ (dashMounted /\ dashLoads > 0) =>
          /\ dashLoading
          /\ ~RefreshAvailable(dashMounted, dashLoading)

\* The load started by a Refresh click is pending, the first one has settled.
C38_Witness ==
    /\ dashMounted
    /\ dashRefreshes = 1
    /\ dashLoads = 1
    /\ dashLoading
    /\ scriptLoads = 1

\* C39: a Dashboard refresh calls the remove method of the live widget once
\* and drops the handle; no widget is live while the Dashboard is loading;
\* and when the request for the library of the chart mounted after the
\* refresh ends, exactly one widget is constructed (unless the constructor
\* throws), for the instrument selected before the refresh.
C39_RefreshRecreatesOnce ==
    [][/\ (dashRefreshes' = dashRefreshes + 1 /\ widgetRef # NoWidget)
            => /\ widgetRef' = NoWidget
               /\ widgets'[widgetRef].teardowns = 1
       /\ (dashMounted' /\ dashLoading')
            => (widgetRef' = NoWidget /\ \A i \in DOMAIN widgets' : widgets'[i].teardowns > 0)
       /\ (dashMounted /\ chartMounted /\ dashRefreshes >= 1
             /\ scriptState = "pending" /\ scriptState' # "pending"
             /\ chartError' # "create")
            => /\ ctorCalls' = ctorCalls + 1
               /\ Len(widgets') = Len(widgets) + 1
               /\ widgetRef' = Len(widgets')
               /\ widgets'[Len(widgets')].symbol = selectedStock]_vars

\* C32: while the Watchlists view is mounted with a non-empty working set, a
\* refresh cycle is started again and again, whatever the user does.
C32_RefreshEventuallyStarts ==
    []<>(~wlMounted \/ NoItems(watchlists) \/ cycles # << >>)

====
